---- MODULE Spec2Model ----
(***************************************************************************)
(* Model of the statue static-site generator: the content processor        *)
(* (scanner, cache, query layer) and the development server's build        *)
(* driver.                                                                 *)
(*                                                                         *)
(* JavaScript strings are modelled as sequences of one-character strings,  *)
(* so that replace / split / startsWith / endsWith are computed character  *)
(* by character as the code computes them.                                 *)
(***************************************************************************)
EXTENDS Integers, Sequences, FiniteSets, TLC

(***************************************************************************)
(* String primitives, as String.prototype defines them                     *)
(***************************************************************************)
\* s.slice(from) with a 1-based first index
SliceFrom(s, from) == SubSeq(s, from, Len(s))

\* s.startsWith(p)
StartsWith(s, p) == Len(p) <= Len(s) /\ SubSeq(s, 1, Len(p)) = p

\* s.endsWith(p)
EndsWith(s, p) == Len(p) <= Len(s) /\ SubSeq(s, Len(s) - Len(p) + 1, Len(s)) = p

\* s.indexOf(p), 1-based; 0 when p does not occur
IndexOf(s, p) ==
  LET hits == {i \in 1..(Len(s) - Len(p) + 1) : SubSeq(s, i, i + Len(p) - 1) = p}
  IN  IF hits = {} THEN 0 ELSE CHOOSE i \in hits : \A j \in hits : i <= j

\* s.includes(p)
Includes(s, p) == IndexOf(s, p) # 0

\* s.replace(p, r) with a string pattern: only the first occurrence is replaced
ReplaceFirst(s, p, r) ==
  LET i == IndexOf(s, p)
  IN  IF i = 0 THEN s
      ELSE SubSeq(s, 1, i - 1) \o r \o SubSeq(s, i + Len(p), Len(s))

\* s.split(c) for a one-character separator c: "" splits into one empty part
RECURSIVE Split(_, _)
Split(s, c) ==
  LET i == IndexOf(s, <<c>>)
  IN  IF i = 0 THEN <<s>>
      ELSE <<SubSeq(s, 1, i - 1)>> \o Split(SliceFrom(s, i + 1), c)

\* parts.join(sep)
RECURSIVE Join(_, _)
Join(parts, sep) ==
  IF Len(parts) = 0 THEN <<>>
  ELSE IF Len(parts) = 1 THEN parts[1]
  ELSE parts[1] \o sep \o Join(Tail(parts), sep)

\* c.toUpperCase() for one character
UpperOf ==
  [a |-> "A", b |-> "B", c |-> "C", d |-> "D", e |-> "E", f |-> "F", g |-> "G",
   h |-> "H", i |-> "I", j |-> "J", k |-> "K", l |-> "L", m |-> "M", n |-> "N",
   o |-> "O", p |-> "P", q |-> "Q", r |-> "R", s |-> "S", t |-> "T", u |-> "U",
   v |-> "V", w |-> "W", x |-> "X", y |-> "Y", z |-> "Z"]

ToUpperCase(c) == IF c \in DOMAIN UpperOf THEN UpperOf[c] ELSE c

(***************************************************************************)
(* formatTitle                                                             *)
(***************************************************************************)
\* word.charAt(0).toUpperCase() + word.slice(1)
Capitalize(word) ==
  IF word = <<>> THEN <<>> ELSE <<ToUpperCase(word[1])>> \o Tail(word)

\* Mutant of formatTitle: the slug is not split into words
formatTitleOfOneWord(slug) == Capitalize(slug)

formatTitle(slug) ==
  LET words == Split(slug, "-")
  IN  Join([i \in 1..Len(words) |-> Capitalize(words[i])], <<" ">>)

(***************************************************************************)
(* processTemplateVariables: one pass of                                   *)
(*   content.replace(/\{\{([^}]+)\}\}/g, (match, variableName) => ...)     *)
(***************************************************************************)
\* The flattened variable map.  The keys are the code's; the values come from
\* site.config.js and the clock, which are inputs of the program.
variables ==
  ( <<"s", "i", "t", "e", ".", "n", "a", "m", "e">>     :> <<"A", "c", "m", "e">> ) @@
  ( <<"s", "i", "t", "e", ".", "u", "r", "l">>      :> <<"h", "t", "t", "p", "s", ":", "/", "/", "a", "c", "m", "e", ".", "d", "e", "v">> ) @@
  ( <<"c", "o", "n", "t", "a", "c", "t", ".", "e", "m", "a", "i", "l">> :> <<"h", "i", "@", "a", "c", "m", "e", ".", "d", "e", "v">> ) @@
  ( <<"s", "i", "t", "e", ".", "d", "e", "s", "c", "r", "i", "p", "t", "i", "o", "n">> :> <<"b", "y", " ", "{", "{", "s", "i", "t", "e", ".", "n", "a", "m", "e", "}", "}">> ) @@
  ( <<"d", "a", "t", "e", ".", "y", "e", "a", "r">>     :> <<"2", "0", "2", "6">> )

\* s.trim()
RECURSIVE TrimStart(_)
TrimStart(s) == IF s # <<>> /\ Head(s) = " " THEN TrimStart(Tail(s)) ELSE s

RECURSIVE TrimEnd(_)
TrimEnd(s) ==
  IF s # <<>> /\ s[Len(s)] = " " THEN TrimEnd(SubSeq(s, 1, Len(s) - 1)) ELSE s

Trim(s) == TrimEnd(TrimStart(s))

\* Length of the match of /\{\{([^}]+)\}\}/ that starts at the first character
\* of s, or 0 when the pattern does not match there.  [^}]+ runs up to the first
\* "}" and must be followed by "}}".
MatchLen(s) ==
  IF ~StartsWith(s, <<"{", "{">>) THEN 0
  ELSE LET j == IndexOf(SliceFrom(s, 3), <<"}">>) + 2
       IN  IF j >= 4 /\ j + 1 <= Len(s) /\ s[j + 1] = "}" THEN j + 1 ELSE 0

\* The replacer callback: the value of a known variable, else the match itself
Replacer(match) ==
  LET trimmedName == Trim(SubSeq(match, 3, Len(match) - 2))
  IN  IF trimmedName \in DOMAIN variables THEN variables[trimmedName] ELSE match

RECURSIVE processTemplateVariables(_)
processTemplateVariables(content) ==
  IF content = <<>> THEN <<>>
  ELSE LET m == MatchLen(content)
       IN  IF m = 0
           THEN <<Head(content)>> \o processTemplateVariables(Tail(content))
           ELSE Replacer(SubSeq(content, 1, m))
                  \o processTemplateVariables(SliceFrom(content, m + 1))

(***************************************************************************)
(* Front-matter values: JavaScript values of the types YAML produces       *)
(***************************************************************************)
StrV(s)   == [t |-> "string",    s |-> s,    n |-> 0]
NumV(n)   == [t |-> "number",    s |-> <<>>, n |-> n]
NullV     == [t |-> "null",      s |-> <<>>, n |-> 0]
Undefined == [t |-> "undefined", s |-> <<>>, n |-> 0]

\* obj.key: undefined for a missing key
Get(obj, key) == IF key \in DOMAIN obj THEN obj[key] ELSE Undefined

\* JavaScript truthiness, as the || operator tests it
Truthy(v) ==
  CASE v.t = "string" -> v.s # <<>>
    [] v.t = "number" -> v.n # 0
    [] OTHER          -> FALSE

\* a || b
OrElse(a, b) == IF Truthy(a) THEN a ELSE b

(***************************************************************************)
(* The content folder on disk                                              *)
(*                                                                         *)
(* A file is [dir, name, readable, wellFormed, data]: dir is the sequence  *)
(* of directory names below the content root, readable says whether        *)
(* fs.readFileSync succeeds, wellFormed whether gray-matter parses the     *)
(* front matter, and data is the parsed front matter.  Corpus lists the    *)
(* files the model draws from, in directory-listing order; a disk is       *)
(* [exists, files] with files a set of indices into Corpus.                *)
(***************************************************************************)
NoData == <<>>

File(dir, name, data) ==
  [dir |-> dir, name |-> name, readable |-> TRUE, wellFormed |-> TRUE, data |-> data]

Unreadable(dir, name) ==
  [dir |-> dir, name |-> name, readable |-> FALSE, wellFormed |-> TRUE, data |-> NoData]

Malformed(dir, name) ==
  [dir |-> dir, name |-> name, readable |-> TRUE, wellFormed |-> FALSE, data |-> NoData]

Root     == <<>>
Blog     == << <<"b", "l", "o", "g">> >>
Blog2    == << <<"b", "l", "o", "g", "2">> >>
BlogNews == << <<"b", "l", "o", "g">>, <<"n", "e", "w", "s">> >>
BlogDeep == << <<"b", "l", "o", "g">>, <<"n", "e", "w", "s">>, <<"2", "0", "2", "4">> >>
RootDir  == << <<"r", "o", "o", "t">> >>
BlogUnderscoreRoot == << <<"b", "l", "o", "g">>, <<"_", "r", "o", "o", "t">> >>

Corpus ==
  << \* file names
     File(Root, <<"a", ".", "m", "d">>, NoData),
     File(Root, <<"m", "y", "-", "f", "i", "r", "s", "t", "-", "p", "o", "s", "t", ".", "m", "d">>, NoData),
     File(Root, <<"a", ".", "m", "d", ".", "m", "d">>, NoData),
     File(Root, <<".", "m", "d", "a", ".", "m", "d">>, NoData),
     File(Root, <<"n", "o", "t", "e", "s", ".", "t", "x", "t">>, NoData),
     File(Blog, <<"a", ".", "m", "d">>, NoData),
     \* front matter
     File(Blog, <<"a", ".", "m", "d">>, [title |-> StrV(<<"H", "e", "l", "l", "o">>)]),
     File(Blog, <<"a", ".", "m", "d">>, [title |-> StrV(<<>>)]),
     File(Blog, <<"a", ".", "m", "d">>, [title |-> NullV]),
     File(Blog, <<"a", ".", "m", "d">>, [title |-> NumV(0), draft |-> NumV(1)]),
     File(Blog, <<"a", ".", "m", "d">>, [title |-> StrV(<<"{", "{", "s", "i", "t", "e", ".", "n", "a", "m", "e", "}", "}", " ", "B", "l", "o", "g">>),
                          description |-> StrV(<<"{", "{", "n", "o", "p", "e", "}", "}">>)]),
     Unreadable(Blog, <<"b", ".", "m", "d">>),
     Malformed(Blog, <<"b", ".", "m", "d">>),
     \* directories
     File(Blog2, <<"a", ".", "m", "d">>, NoData),
     File(BlogNews, <<"a", ".", "m", "d">>, NoData),
     File(BlogNews, <<"b", ".", "m", "d">>, NoData),
     File(BlogDeep, <<"a", ".", "m", "d">>, NoData),
     File(RootDir, <<"a", ".", "m", "d">>, NoData),
     \* front-matter order, and a directory named as the sidebar's own group key
     File(Blog, <<"c", ".", "m", "d">>, [order |-> NumV(2)]),
     File(Blog, <<"d", ".", "m", "d">>, [order |-> NumV(1)]),
     File(Blog, <<"e", ".", "m", "d">>, [order |-> NumV(1)]),
     File(Blog, <<"f", ".", "m", "d">>, [order |-> NumV(0)]),
     File(BlogUnderscoreRoot, <<"a", ".", "m", "d">>, NoData) >>

FileIds == 1..Len(Corpus)

\* No two files of a disk have the same path
ValidFiles(files) ==
  \A i, j \in files :
    (Corpus[i].dir = Corpus[j].dir /\ Corpus[i].name = Corpus[j].name) => i = j

\* The ids of a set in ascending order
RECURSIVE Ascending(_)
Ascending(ids) ==
  IF ids = {} THEN <<>>
  ELSE LET lo == CHOOSE i \in ids : \A j \in ids : i <= j
       IN  <<lo>> \o Ascending(ids \ {lo})

IsPrefix(p, s) == Len(p) <= Len(s) /\ SubSeq(s, 1, Len(p)) = p

\* fs.readdirSync(dirPath): the names directly in the directory, each once, with
\* what fs.statSync says of it
RECURSIVE Listing(_, _, _)
Listing(ids, dirPath, seen) ==
  IF ids = <<>> THEN <<>>
  ELSE LET f     == Corpus[Head(ids)]
           isDir == f.dir # dirPath
           name  == IF isDir THEN f.dir[Len(dirPath) + 1] ELSE f.name
       IN  IF ~IsPrefix(dirPath, f.dir) \/ name \in seen
           THEN Listing(Tail(ids), dirPath, seen)
           ELSE <<[name |-> name, isDirectory |-> isDir, id |-> Head(ids)]>>
                  \o Listing(Tail(ids), dirPath, seen \cup {name})

readdirSync(disk, dirPath) == Listing(Ascending(disk.files), dirPath, {})

\* path.join(a, b) for a relative path a and a name b
PathJoin(a, b) == IF a = <<>> THEN b ELSE a \o <<"/">> \o b

(***************************************************************************)
(* scanContentDirectory                                                    *)
(***************************************************************************)
\* The ContentEntry pushed for the readable, well-formed markdown file `entry`
\* found in the directory with relative path relativePath
ContentEntry(entry, relativePath, data) ==
  LET slug == ReplaceFirst(entry, <<".", "m", "d">>, <<>>)
      url  == IF relativePath # <<>>
              THEN <<"/">> \o relativePath \o <<"/">> \o slug
              ELSE <<"/">> \o slug
      processedMetadata ==
        [key \in DOMAIN data |->
           IF data[key].t = "string"
           THEN StrV(processTemplateVariables(data[key].s))
           ELSE data[key]]
      \* { title: ..., description: ..., date: ..., author: ..., ...processedMetadata }:
      \* a key of processedMetadata overrides the default written before it
      finalMetadata ==
        processedMetadata @@
        [title       |-> OrElse(Get(processedMetadata, "title"), StrV(formatTitle(slug))),
         description |-> OrElse(Get(processedMetadata, "description"), StrV(<<>>)),
         date        |-> OrElse(Get(processedMetadata, "date"), NullV),
         author      |-> OrElse(Get(processedMetadata, "author"), NullV)]
      directory == relativePath
      first     == Split(directory, "/")[1]
      mainDirectory == IF first # <<>> THEN first ELSE <<"r", "o", "o", "t">>
  IN  [slug          |-> slug,
       path          |-> PathJoin(relativePath, entry),
       url           |-> url,
       directory     |-> directory,
       mainDirectory |-> mainDirectory,
       depth         |-> IF directory = <<>> THEN 0 ELSE Len(Split(directory, "/")),
       metadata      |-> finalMetadata]

\* Mutant of scanFile: a file that cannot be read or parsed is skipped
scanFileSkipping(acc, entry, relativePath) ==
  LET f == Corpus[entry.id]
  IN  IF ~f.readable \/ ~f.wellFormed
      THEN acc
      ELSE [acc EXCEPT !.contentEntries =
              Append(@, ContentEntry(entry.name, relativePath, f.data))]

\* The body of the loop for a markdown file: fs.readFileSync or matter() throws,
\* or an entry is pushed.  acc is [thrown, contentEntries].
scanFile(acc, entry, relativePath) ==
  LET f == Corpus[entry.id]
  IN  IF ~f.readable \/ ~f.wellFormed
      THEN [acc EXCEPT !.thrown = TRUE]
      ELSE [acc EXCEPT !.contentEntries =
              Append(@, ContentEntry(entry.name, relativePath, f.data))]

\* function scanDir(dirPath, relativePath): an exception ends every enclosing loop
RECURSIVE scanDir(_, _, _, _)
RECURSIVE scanEntries(_, _, _, _, _)
scanEntries(disk, dirPath, relativePath, entries, acc) ==
  IF entries = <<>> \/ acc.thrown THEN acc
  ELSE LET entry == Head(entries)
           next  ==
             IF entry.isDirectory
             THEN scanDir(disk, Append(dirPath, entry.name),
                          PathJoin(relativePath, entry.name), acc)
             ELSE IF EndsWith(entry.name, <<".", "m", "d">>)
             THEN scanFile(acc, entry, relativePath)
             ELSE acc
       IN  scanEntries(disk, dirPath, relativePath, Tail(entries), next)

scanDir(disk, dirPath, relativePath, acc) ==
  scanEntries(disk, dirPath, relativePath, readdirSync(disk, dirPath), acc)

\* [thrown, contentEntries]: a thrown scan returns nothing
scanContentDirectory(disk) ==
  IF ~disk.exists THEN [thrown |-> FALSE, contentEntries |-> <<>>]
  ELSE LET r == scanDir(disk, <<>>, <<>>, [thrown |-> FALSE, contentEntries |-> <<>>])
       IN  IF r.thrown THEN [thrown |-> TRUE, contentEntries |-> <<>>] ELSE r

(***************************************************************************)
(* The query layer, as functions of the array getAllContent() returned     *)
(***************************************************************************)
\* url.endsWith('/') ? url.slice(0, -1) : url
TrimSlash(url) == IF EndsWith(url, <<"/">>) THEN SubSeq(url, 1, Len(url) - 1) ELSE url

\* allContent.find(...): the first match as a one-element sequence, <<>> for undefined
getContentByUrl(allContent, url) ==
  LET normalizedUrl == TrimSlash(url)
      Matches(entry) == TrimSlash(entry.url) = normalizedUrl
      found == SelectSeq(allContent, Matches)
  IN  IF found = <<>> THEN <<>> ELSE <<Head(found)>>

\* Mutant of InDirectory: the prefix test without the separator
InDirectoryNoBoundary(entry, directory) ==
  entry.directory = directory \/ StartsWith(entry.directory, directory)

\* entry.directory === directory || entry.directory.startsWith(directory + '/')
InDirectory(entry, directory) ==
  entry.directory = directory \/ StartsWith(entry.directory, directory \o <<"/">>)

getContentByDirectory(allContent, directory) ==
  IF directory = <<"r", "o", "o", "t">>
  THEN LET IsRoot(entry) == entry.directory = <<"r", "o", "o", "t">>
       IN  SelectSeq(allContent, IsRoot)
  ELSE LET Under(entry) == InDirectory(entry, directory)
       IN  SelectSeq(allContent, Under)

\* contents.forEach(entry => ... subdirs.add(firstLevel)): a Set keeps insertion order
RECURSIVE SubdirNames(_, _, _)
SubdirNames(contents, directory, subdirs) ==
  IF contents = <<>> THEN subdirs
  ELSE LET relativePath == ReplaceFirst(Head(contents).directory, directory \o <<"/">>, <<>>)
           firstLevel   == Split(relativePath, "/")[1]
           added ==
             IF relativePath # <<>> /\ Includes(relativePath, <<"/">>)
                /\ \A i \in 1..Len(subdirs) : subdirs[i] # firstLevel
             THEN Append(subdirs, firstLevel)
             ELSE subdirs
       IN  SubdirNames(Tail(contents), directory, added)

getSubDirectories(allContent, directory) ==
  LET Relevant(entry) == entry.directory # <<"r", "o", "o", "t">> /\ InDirectory(entry, directory)
      contents == SelectSeq(allContent, Relevant)
      subdirs  == SubdirNames(contents, directory, <<>>)
  IN  [i \in 1..Len(subdirs) |->
         [name  |-> subdirs[i],
          path  |-> directory \o <<"/">> \o subdirs[i],
          title |-> formatTitle(subdirs[i]),
          url   |-> <<"/">> \o directory \o <<"/">> \o subdirs[i]]]

(***************************************************************************)
(* getSidebarTree                                                          *)
(*                                                                         *)
(* The groups object is a sequence of [key, title, items] in the order     *)
(* Object.values / Object.entries enumerate it: the keys that are array    *)
(* indices first, in ascending numeric order, then the other keys in       *)
(* insertion order.                                                        *)
(***************************************************************************)
Digits == {"0", "1", "2", "3", "4", "5", "6", "7", "8", "9"}

DigitValue(c) == CHOOSE n \in 0..9 : <<"0", "1", "2", "3", "4", "5", "6", "7", "8", "9">>[n + 1] = c

RECURSIVE NumericValue(_)
NumericValue(key) ==
  IF key = <<>> THEN 0
  ELSE 10 * NumericValue(SubSeq(key, 1, Len(key) - 1)) + DigitValue(key[Len(key)])

\* A canonical array index; every directory name of the corpus made of digits
\* has fewer than ten of them
IsArrayIndex(key) ==
  /\ key # <<>>
  /\ Len(key) < 10
  /\ \A i \in 1..Len(key) : key[i] \in Digits
  /\ (Len(key) > 1 => key[1] # "0")

\* groups[groupKey].items.push(item), creating the group first if it is missing
AddToGroup(groups, groupKey, title, item) ==
  IF \E i \in 1..Len(groups) : groups[i].key = groupKey
  THEN [i \in 1..Len(groups) |->
          IF groups[i].key = groupKey
          THEN [groups[i] EXCEPT !.items = Append(@, item)]
          ELSE groups[i]]
  ELSE Append(groups, [key |-> groupKey, title |-> title, items |-> <<item>>])

RECURSIVE GroupEntries(_, _, _)
GroupEntries(directoryContent, directory, groups) ==
  IF directoryContent = <<>> THEN groups
  ELSE LET entry == Head(directoryContent)
           relativePath ==
             IF entry.directory = directory THEN <<>>
             ELSE ReplaceFirst(entry.directory, directory \o <<"/">>, <<>>)
           NonEmpty(part) == part # <<>>
           parts    == SelectSeq(Split(relativePath, "/"), NonEmpty)
           groupKey == IF parts # <<>> THEN parts[1] ELSE <<"_", "r", "o", "o", "t">>
           title    == IF groupKey = <<"_", "r", "o", "o", "t">> THEN formatTitle(directory)
                       ELSE formatTitle(groupKey)
           item     == [title |-> entry.metadata.title,
                        url   |-> entry.url,
                        order |-> OrElse(Get(entry.metadata, "order"), NumV(999))]
       IN  GroupEntries(Tail(directoryContent), directory,
                        AddToGroup(groups, groupKey, title, item))

\* items.sort((a, b) => a.order - b.order): a stable sort.  The corpus gives
\* order numeric values only.
RECURSIVE SortItems(_)
InsertItem(sorted, item) ==
  LET later == {i \in 1..Len(sorted) : sorted[i].order.n > item.order.n}
      at    == IF later = {} THEN Len(sorted) + 1
               ELSE CHOOSE i \in later : \A j \in later : i <= j
  IN  SubSeq(sorted, 1, at - 1) \o <<item>> \o SubSeq(sorted, at, Len(sorted))

SortItems(items) ==
  IF items = <<>> THEN <<>>
  ELSE InsertItem(SortItems(SubSeq(items, 1, Len(items) - 1)), items[Len(items)])

\* The groups in enumeration order
RECURSIVE ByNumericKey(_)
ByNumericKey(groups) ==
  IF groups = <<>> THEN <<>>
  ELSE LET lo == CHOOSE i \in 1..Len(groups) :
                   \A j \in 1..Len(groups) :
                     NumericValue(groups[i].key) <= NumericValue(groups[j].key)
           Rest(g) == g.key # groups[lo].key
       IN  <<groups[lo]>> \o ByNumericKey(SelectSeq(groups, Rest))

Enumerate(groups) ==
  LET Indexed(g) == IsArrayIndex(g.key)
      Named(g)   == ~IsArrayIndex(g.key)
  IN  ByNumericKey(SelectSeq(groups, Indexed)) \o SelectSeq(groups, Named)

getSidebarTree(allContent, directory) ==
  LET Under(entry) == InDirectory(entry, directory)
      directoryContent == SelectSeq(allContent, Under)
      grouped == GroupEntries(directoryContent, directory, <<>>)
      groups  == [i \in 1..Len(grouped) |->
                    [grouped[i] EXCEPT !.items = SortItems(@)]]
      IsRootGroup(g)  == g.key = <<"_", "r", "o", "o", "t">>
      NotRootGroup(g) == g.key # <<"_", "r", "o", "o", "t">>
      rootGroup == SelectSeq(groups, IsRootGroup)
      rootItems == IF rootGroup = <<>> THEN <<>> ELSE rootGroup[1].items
      others    == Enumerate(SelectSeq(groups, NotRootGroup))
  IN  rootItems \o [i \in 1..Len(others) |->
                      [title |-> others[i].title, children |-> others[i].items]]

(***************************************************************************)
(* State                                                                   *)
(***************************************************************************)
VARIABLES
  disk,             \* the content folder: [exists, files]
  isDev,            \* development mode, read from the environment of the process
  cachedContent,    \* let cachedContent: Null or the array a scan returned
  scanCount,        \* how many times scanContentDirectory() has run
  result,           \* the last step: [op, arg, threw, value]
  buildInProgress,  \* dev server: let buildInProgress
  needsRebuild,     \* dev server: let needsRebuild
  running,          \* dev server: the spawned build processes that have not closed
  spawned,          \* dev server: how many build processes were spawned
  changes,          \* dev server: how many watcher callbacks have run
  lastLog,          \* dev server: the last line written to the console
  pc                \* dev server: where the main module is

contentVars == <<disk, isDev, cachedContent, scanCount, result>>
devVars     == <<buildInProgress, needsRebuild, running, spawned, changes, lastLog, pc>>
vars        == <<disk, isDev, cachedContent, scanCount, result,
                 buildInProgress, needsRebuild, running, spawned, changes, lastLog,
                 pc>>

\* Bounds of the model
MaxFiles   == 3
MaxScans   == 3
MaxBuilds  == 5
MaxChanges == 6

\* An array is [isNull, id, entries]; id tells the arrays of different scans apart
Null == [isNull |-> TRUE, id |-> 0, entries |-> <<>>]

Array(id, entries) == [isNull |-> FALSE, id |-> id, entries |-> entries]

NoValue == <<>>

(***************************************************************************)
(* getAllContent and clearContentCache                                     *)
(***************************************************************************)
\* Mutant of AfterScan: the array is cached in development mode too
AfterScanCaching(scan) ==
  IF scan.thrown
  THEN [threw |-> TRUE, content |-> Null,
        cache |-> IF isDev THEN Null ELSE cachedContent, scans |-> scanCount + 1]
  ELSE [threw |-> FALSE, content |-> Array(scanCount + 1, scan.contentEntries),
        cache |-> Array(scanCount + 1, scan.contentEntries),
        scans |-> scanCount + 1]

\* What getAllContent does with the outcome of scanContentDirectory():
\* [threw, content, cache, scans]
AfterScan(scan) ==
  IF scan.thrown
  THEN [threw |-> TRUE, content |-> Null,
        cache |-> IF isDev THEN Null ELSE cachedContent, scans |-> scanCount + 1]
  ELSE [threw |-> FALSE, content |-> Array(scanCount + 1, scan.contentEntries),
        cache |-> IF ~isDev THEN Array(scanCount + 1, scan.contentEntries)
                  ELSE Null,
        scans |-> scanCount + 1]

\* Mutant of getAllContent: the cache is never consulted
getAllContentNoCache ==
  IF scanContentDirectory(disk).thrown
  THEN [threw |-> TRUE, content |-> Null,
        cache |-> IF isDev THEN Null ELSE cachedContent, scans |-> scanCount + 1]
  ELSE [threw |-> FALSE,
        content |-> Array(scanCount + 1, scanContentDirectory(disk).contentEntries),
        cache |-> IF ~isDev
                  THEN Array(scanCount + 1, scanContentDirectory(disk).contentEntries)
                  ELSE Null,
        scans |-> scanCount + 1]

\* [threw, content, cache, scans]: whether the call threw, the array it returned,
\* and cachedContent and scanCount after it.  In development mode cachedContent
\* is set to null before the scan.
getAllContent ==
  IF ~isDev /\ ~cachedContent.isNull
  THEN [threw |-> FALSE, content |-> cachedContent,
        cache |-> cachedContent, scans |-> scanCount]
  ELSE AfterScan(scanContentDirectory(disk))

\* Mutant of clearContentCache: the cache is left as it is
clearContentCacheKeeping == cachedContent

\* The value clearContentCache assigns to cachedContent
clearContentCache == Null

(***************************************************************************)
(* Actions of the content processor                                        *)
(***************************************************************************)
\* The effect of the getAllContent() call an exported function starts with, r
\* being what getAllContent gave; value is what the function returns when the
\* call did not throw
Returns(op, arg, r, value) ==
  /\ cachedContent' = r.cache
  /\ scanCount' = r.scans
  /\ result' = [op |-> op, arg |-> arg, threw |-> r.threw,
                value |-> IF r.threw THEN NoValue ELSE value]
  /\ UNCHANGED <<disk, isDev>>
  /\ UNCHANGED devVars

QueryUrls == { <<"/", "a">>, <<"/", "b", "l", "o", "g", "/", "a", "/">>, <<"/", "b", "l", "o", "g", "/", "n", "e", "w", "s">> }

QueryDirs == { <<"r", "o", "o", "t">>, <<"b", "l", "o", "g">>, <<"b", "l", "o", "g", "/", "n", "e", "w", "s">>, <<>> }

GetAllContent ==
  \E r \in {getAllContent} :
    /\ r.scans <= MaxScans
    /\ Returns("getAllContent", <<>>, r, r.content)

GetContentByUrl ==
  \E url \in QueryUrls, r \in {getAllContent} :
    /\ r.scans <= MaxScans
    /\ Returns("getContentByUrl", url, r, getContentByUrl(r.content.entries, url))

GetContentByDirectory ==
  \E directory \in QueryDirs, r \in {getAllContent} :
    /\ r.scans <= MaxScans
    /\ Returns("getContentByDirectory", directory, r,
               getContentByDirectory(r.content.entries, directory))

GetSubDirectories ==
  \E directory \in QueryDirs, r \in {getAllContent} :
    /\ r.scans <= MaxScans
    /\ Returns("getSubDirectories", directory, r,
               getSubDirectories(r.content.entries, directory))

GetSidebarTree ==
  \E directory \in QueryDirs, r \in {getAllContent} :
    /\ r.scans <= MaxScans
    /\ Returns("getSidebarTree", directory, r,
               getSidebarTree(r.content.entries, directory))

ClearContentCache ==
  /\ cachedContent' = clearContentCache
  /\ result' = [op |-> "clearContentCache", arg |-> <<>>, threw |-> FALSE,
                value |-> NoValue]
  /\ UNCHANGED <<disk, isDev, scanCount>>
  /\ UNCHANGED devVars

(***************************************************************************)
(* The author edits the content folder between calls                       *)
(***************************************************************************)
Edited == [op |-> "edit", arg |-> <<>>, threw |-> FALSE, value |-> NoValue]

\* The files the author writes and removes while the processor runs
EditFiles == {1, 7, 12, 13, 15}

MakeContentFolder ==
  /\ ~disk.exists
  /\ disk' = [disk EXCEPT !.exists = TRUE]
  /\ result' = Edited
  /\ UNCHANGED <<isDev, cachedContent, scanCount>>
  /\ UNCHANGED devVars

WriteFile ==
  \E id \in EditFiles \ disk.files :
    /\ disk.exists
    /\ Cardinality(disk.files) < MaxFiles
    /\ ValidFiles(disk.files \cup {id})
    /\ disk' = [disk EXCEPT !.files = @ \cup {id}]
    /\ result' = Edited
    /\ UNCHANGED <<isDev, cachedContent, scanCount>>
    /\ UNCHANGED devVars

RemoveFile ==
  \E id \in disk.files :
    /\ disk' = [disk EXCEPT !.files = @ \ {id}]
    /\ result' = Edited
    /\ UNCHANGED <<isDev, cachedContent, scanCount>>
    /\ UNCHANGED devVars

DevIdle ==
  /\ buildInProgress = FALSE
  /\ needsRebuild = FALSE
  /\ running = {}
  /\ spawned = 0
  /\ changes = 0
  /\ lastLog = "Statue development server starting..."
  /\ pc = "start"

Started == [op |-> "start", arg |-> <<>>, threw |-> FALSE, value |-> NoValue]

\* A process that has imported the content processor: no content folder yet,
\* cold cache.  The mode is fixed by the environment the process was started in;
\* no code of the repository assigns process.env.NODE_ENV.
Init ==
  /\ disk = [exists |-> FALSE, files |-> {}]
  /\ isDev \in BOOLEAN
  /\ cachedContent = Null
  /\ scanCount = 0
  /\ result = Started
  /\ DevIdle

Next ==
  \/ GetAllContent
  \/ GetContentByUrl
  \/ GetContentByDirectory
  \/ GetSubDirectories
  \/ GetSidebarTree
  \/ ClearContentCache
  \/ MakeContentFolder
  \/ WriteFile
  \/ RemoveFile

Spec == Init /\ [][Next]_vars

(***************************************************************************)
(* The scanner and the queries over a bounded set of content folders       *)
(***************************************************************************)
Folders == {files \in SUBSET FileIds : Cardinality(files) <= MaxFiles /\ ValidFiles(files)}

\* build.js is started without NODE_ENV=development
InitScan ==
  /\ disk \in {[exists |-> TRUE, files |-> files] : files \in Folders}
  /\ isDev = FALSE
  /\ cachedContent = Null
  /\ scanCount = 0
  /\ result = Started
  /\ DevIdle

NextScan ==
  \/ GetAllContent
  \/ GetContentByUrl
  \/ GetContentByDirectory
  \/ GetSubDirectories
  \/ GetSidebarTree

SpecScan == InitScan /\ [][NextScan]_vars

(***************************************************************************)
(* The development server's build driver                                   *)
(***************************************************************************)
\* Mutant of runBuild: no test of buildInProgress
runBuildUnguarded(inProgress, rebuild) ==
  [buildInProgress |-> TRUE, needsRebuild |-> rebuild, spawn |-> TRUE]

\* async function runBuild(), called with the current buildInProgress and
\* needsRebuild: their new values, and whether a build process is spawned
runBuild(inProgress, rebuild) ==
  IF inProgress
  THEN [buildInProgress |-> TRUE, needsRebuild |-> TRUE, spawn |-> FALSE]
  ELSE [buildInProgress |-> TRUE, needsRebuild |-> rebuild, spawn |-> TRUE]

\* The assignments of a runBuild() call whose outcome is b, by a step that has
\* taken the processes `closed` out of running and has logged `line` before
Build(b, closed, line) ==
  /\ b.spawn => spawned < MaxBuilds
  /\ buildInProgress' = b.buildInProgress
  /\ needsRebuild' = b.needsRebuild
  /\ spawned' = IF b.spawn THEN spawned + 1 ELSE spawned
  /\ running' = IF b.spawn THEN (running \ closed) \cup {spawned + 1}
                ELSE running \ closed
  /\ lastLog' = IF b.spawn THEN "Building..." ELSE line

\* await runBuild() of the main module
InitialBuild ==
  /\ pc = "start"
  /\ Build(runBuild(buildInProgress, needsRebuild), {}, lastLog)
  /\ pc' = "initial"
  /\ UNCHANGED changes
  /\ UNCHANGED contentVars

\* buildProcess.on('close') with code 0: the promise resolves; a queued request
\* starts the next build
CloseOk ==
  \E p \in running :
    /\ pc \in {"initial", "watching"}
    /\ IF needsRebuild
       THEN Build(runBuild(FALSE, FALSE), {p}, "Build complete")
       ELSE /\ buildInProgress' = FALSE
            /\ running' = running \ {p}
            /\ lastLog' = IF pc = "initial" THEN "Watching for changes..."
                          ELSE "Build complete"
            /\ UNCHANGED <<needsRebuild, spawned>>
    /\ pc' = "watching"
    /\ UNCHANGED changes
    /\ UNCHANGED contentVars

\* buildProcess.on('close') with another code: the promise is rejected.  The
\* rejection of the awaited initial build ends the main module; a later one is
\* handled by nobody, which ends the process or not, by the version of node.
CloseFailed ==
  \E p \in running, unhandledRejectionExits \in BOOLEAN :
    /\ pc \in {"initial", "watching"}
    /\ buildInProgress' = FALSE
    /\ running' = running \ {p}
    /\ lastLog' = "Build failed"
    /\ pc' = IF pc = "initial" \/ unhandledRejectionExits THEN "exited" ELSE pc
    /\ UNCHANGED <<needsRebuild, spawned, changes>>
    /\ UNCHANGED contentVars

\* A callback of fs.watch: logs the change and calls runBuild() when the file
\* name passes its filter
Watched(line, passes) ==
  /\ changes < MaxChanges
  /\ changes' = changes + 1
  /\ IF passes
     THEN Build(runBuild(buildInProgress, needsRebuild), {}, line)
     ELSE UNCHANGED <<buildInProgress, needsRebuild, spawned, running, lastLog>>
  /\ UNCHANGED pc
  /\ UNCHANGED contentVars

\* filename && filename.endsWith('.md')
ContentChanged ==
  \E isMarkdown \in BOOLEAN :
    /\ pc = "watching"
    /\ Watched("Content changed", isMarkdown)

\* filename && filename.endsWith('.js')
TemplateChanged ==
  \E isScript \in BOOLEAN :
    /\ pc = "watching"
    /\ Watched("Template changed", isScript)

\* filename && filename.endsWith('.css')
StyleChanged ==
  \E isStyle \in BOOLEAN :
    /\ pc = "watching"
    /\ Watched("Style changed", isStyle)

ConfigChanged ==
  /\ pc = "watching"
  /\ Watched("Config changed", TRUE)

InitDev ==
  /\ disk = [exists |-> FALSE, files |-> {}]
  /\ isDev = FALSE
  /\ cachedContent = Null
  /\ scanCount = 0
  /\ result = Started
  /\ DevIdle

NextDev ==
  \/ InitialBuild
  \/ CloseOk
  \/ CloseFailed
  \/ ContentChanged
  \/ TemplateChanged
  \/ StyleChanged
  \/ ConfigChanged

SpecDev == InitDev /\ [][NextDev]_vars

(***************************************************************************)
(* Properties                                                              *)
(***************************************************************************)
\* The exported functions that start with getAllContent()
QueryOps ==
  {"getAllContent", "getContentByUrl", "getContentByDirectory",
   "getSubDirectories", "getSidebarTree"}

\* A markdown file of the folder cannot be read or parsed
HasBadFile(folder) ==
  \E id \in folder.files :
    /\ EndsWith(Corpus[id].name, <<".", "m", "d">>)
    /\ ~Corpus[id].readable \/ ~Corpus[id].wellFormed

\* C1: outside development mode, once the cache is warm, a call of getAllContent,
\* getContentByUrl, getContentByDirectory, getSubDirectories or getSidebarTree
\* performs no scan and leaves the cache as it is, and getAllContent returns the
\* cached array itself, whatever is on disk by then.
C1_WarmCacheIsNotRescanned ==
  [][ (~isDev /\ ~cachedContent.isNull /\ result'.op \in QueryOps)
        => /\ scanCount' = scanCount
           /\ cachedContent' = cachedContent
           /\ ~result'.threw
           /\ result'.op = "getAllContent" => result'.value = cachedContent ]_vars

\* C1 witness: getAllContent has returned the array of the first scan although
\* the folder has changed since
C1_Witness ==
  /\ ~isDev
  /\ result.op = "getAllContent"
  /\ scanCount = 1
  /\ result.value = cachedContent
  /\ ~HasBadFile(disk)
  /\ scanContentDirectory(disk).contentEntries # cachedContent.entries

\* C2: in development mode every call that goes through getAllContent() scans
\* anew and leaves cachedContent null, and getAllContent returns the entries of
\* the folder as it is on disk at the call.
C2_DevAlwaysRescans ==
  [][ (isDev /\ result'.op \in QueryOps)
        => /\ scanCount' = scanCount + 1
           /\ cachedContent'.isNull
           /\ result'.threw = HasBadFile(disk)
           /\ (result'.op = "getAllContent" /\ ~result'.threw)
                => /\ result'.value.id = scanCount'
                   /\ result'.value.entries = scanContentDirectory(disk).contentEntries ]_vars

\* C2 witness: a second scan in development mode has returned entries
C2_Witness ==
  /\ isDev
  /\ result.op = "getAllContent"
  /\ scanCount >= 2
  /\ ~result.threw
  /\ result.value.entries # <<>>
  /\ cachedContent.isNull

\* C3: clearContentCache leaves cachedContent null; outside development mode a
\* getAllContent() call that finds it null scans, and when the scan succeeds its
\* result is the entries on disk and is the new cachedContent.
C3_ClearForcesRescan ==
  [][ /\ result'.op = "clearContentCache" => cachedContent'.isNull
      /\ (~isDev /\ cachedContent.isNull /\ result'.op = "getAllContent")
           => /\ scanCount' = scanCount + 1
              /\ ~result'.threw
                   => /\ result'.value.entries = scanContentDirectory(disk).contentEntries
                      /\ cachedContent' = result'.value ]_vars

\* C3 witness: the array of a second scan is cached outside development mode
C3_Witness ==
  /\ ~isDev
  /\ result.op = "getAllContent"
  /\ scanCount = 2
  /\ ~HasBadFile(disk)
  /\ cachedContent.id = 2
  /\ cachedContent = result.value
  /\ cachedContent.entries # <<>>

\* C7: when a markdown file of the folder cannot be read or parsed, a
\* getAllContent() call that scans throws, returns nothing and leaves
\* cachedContent as it was, which is null.
C7_FailedScanAborts ==
  [][ (result'.op = "getAllContent" /\ (isDev \/ cachedContent.isNull)
         /\ HasBadFile(disk))
        => /\ result'.threw
           /\ cachedContent' = cachedContent
           /\ cachedContent'.isNull
           /\ scanCount' = scanCount + 1 ]_vars

\* C7 witness: a scan has thrown on a folder that also holds a file that scans
C7_Witness ==
  /\ result.op = "getAllContent"
  /\ result.threw
  /\ cachedContent.isNull
  /\ {1, 12} \subseteq disk.files

\* C4: at most one build process runs at any time, buildInProgress says whether
\* one runs, and a watcher callback that runs during a build spawns nothing: its
\* request, if the file name passes the filter, sets needsRebuild.
C4_OneBuildAtATime ==
  [][ /\ Cardinality(running') <= 1
      /\ buildInProgress' = (running' # {})
      /\ (buildInProgress /\ changes' = changes + 1)
           => /\ spawned' = spawned
              /\ running' = running
              /\ lastLog' # lastLog => needsRebuild' ]_vars

\* C4 witness: a change has been queued behind the running build
C4_Witness ==
  /\ Cardinality(running) = 1
  /\ needsRebuild
  /\ lastLog = "Content changed"

\* The path segments of a directory string
Segments(directory) == Split(directory, "/")

\* C5 (as claimed): the urls of the entries of a scan are pairwise distinct.
C5_UrlsAreDistinct ==
  (result.op = "getAllContent" /\ ~result.threw)
    => \A i, j \in 1..Len(result.value.entries) :
         i # j => result.value.entries[i].url # result.value.entries[j].url

\* C6 (as claimed): every entry of a scan has a non-empty metadata.title.
C6_TitleIsNonEmpty ==
  (result.op = "getAllContent" /\ ~result.threw)
    => \A i \in 1..Len(result.value.entries) :
         Truthy(result.value.entries[i].metadata.title)

\* C8: for a directory other than "root", getContentByDirectory returns, in scan
\* order, exactly the entries of getAllContent() whose directory is the argument
\* or lies below it: the path segments of the argument are the first path
\* segments of the entry's directory.
C8_ByDirectoryIsSegmentPrefix ==
  (result.op = "getContentByDirectory" /\ result.arg # <<"r", "o", "o", "t">> /\ ~result.threw)
    => LET Below(entry) == IsPrefix(Segments(result.arg), Segments(entry.directory))
       IN  result.value = SelectSeq(cachedContent.entries, Below)

\* C8 witness: the query for blog has returned an entry of blog/news while the
\* folder holds an entry of blog2
C8_Witness ==
  /\ result.op = "getContentByDirectory"
  /\ result.arg = <<"b", "l", "o", "g">>
  /\ \E i \in 1..Len(result.value) : result.value[i].directory = <<"b", "l", "o", "g", "/", "n", "e", "w", "s">>
  /\ \E i \in 1..Len(cachedContent.entries) :
       cachedContent.entries[i].directory = <<"b", "l", "o", "g", "2">>
  /\ \A i \in 1..Len(result.value) : result.value[i].directory # <<"b", "l", "o", "g", "2">>

\* C9 (as claimed): getContentByDirectory("root") returns exactly the entries of
\* the files placed directly in the content root.
C9_RootQueryReturnsRootFiles ==
  (result.op = "getContentByDirectory" /\ result.arg = <<"r", "o", "o", "t">> /\ ~result.threw)
    => LET AtRoot(entry) == entry.depth = 0 /\ entry.mainDirectory = <<"r", "o", "o", "t">>
       IN  result.value = SelectSeq(cachedContent.entries, AtRoot)

\* C10 (as claimed): getSubDirectories(d) returns one descriptor per immediate
\* subdirectory of d that holds content, directly or deeper, and nothing else.
C10_SubDirectoriesAreImmediate ==
  (result.op = "getSubDirectories" /\ ~result.threw)
    => LET d == result.arg
           under == {i \in 1..Len(cachedContent.entries) :
                       StartsWith(cachedContent.entries[i].directory, d \o <<"/">>)}
           expected ==
             {Segments(SliceFrom(cachedContent.entries[i].directory, Len(d) + 2))[1] :
                i \in under}
       IN  /\ {result.value[i].name : i \in 1..Len(result.value)} = expected
           /\ Len(result.value) = Cardinality(expected)
           /\ \A i \in 1..Len(result.value) :
                /\ result.value[i].path = d \o <<"/">> \o result.value[i].name
                /\ result.value[i].title = formatTitle(result.value[i].name)
                /\ result.value[i].url = <<"/">> \o d \o <<"/">> \o result.value[i].name

\* A node of a sidebar tree is a leaf [title, url, order] or a group
\* [title, children]
IsLeaf(node) == "url" \in DOMAIN node

\* The order the sidebar is said to sort by: the front-matter value, 999 without
Order(entry) ==
  IF "order" \in DOMAIN entry.metadata THEN entry.metadata.order.n ELSE 999

\* C11 (as claimed): in getSidebarTree(d) every top-level leaf precedes every
\* group node, and the leaves of the entries located directly in d are those
\* entries sorted ascending by their front-matter order, an entry without order
\* counting as 999 and equal orders keeping scan order.
C11_DirectLeavesSortedByOrder ==
  (result.op = "getSidebarTree" /\ ~result.threw)
    => LET d        == result.arg
           tree     == result.value
           Direct(entry) == entry.directory = d
           direct   == SelectSeq(cachedContent.entries, Direct)
           OfDirect(node) ==
             IsLeaf(node) /\ \E i \in 1..Len(direct) : direct[i].url = node.url
           leaves   == SelectSeq(tree, OfDirect)
           n        == Len(direct)
       IN  /\ \A i, j \in 1..Len(tree) :
                (IsLeaf(tree[i]) /\ ~IsLeaf(tree[j])) => i < j
           /\ Len(leaves) = n
           /\ \E p \in [1..n -> 1..n] :
                /\ \A i, j \in 1..n : i < j =>
                     \/ Order(direct[p[i]]) < Order(direct[p[j]])
                     \/ Order(direct[p[i]]) = Order(direct[p[j]]) /\ p[i] < p[j]
                /\ \A i \in 1..n :
                     /\ leaves[i].url = direct[p[i]].url
                     /\ leaves[i].title = direct[p[i]].metadata.title
                     /\ leaves[i].order.n = Order(direct[p[i]])

(***************************************************************************)
(* createLinkTransformer: renderer.link, called by marked with a link      *)
(* token [href, title, text]                                               *)
(***************************************************************************)
Letters == DOMAIN UpperOf \cup {UpperOf[c] : c \in DOMAIN UpperOf}

\* /^[a-zA-Z][a-zA-Z0-9+.-]*:/.test(href)
hasProtocol(href) ==
  /\ href # <<>>
  /\ href[1] \in Letters
  /\ \E i \in 2..Len(href) :
       /\ href[i] = ":"
       /\ \A j \in 2..(i - 1) : href[j] \in Letters \cup Digits \cup {"+", ".", "-"}

\* s.replace(/\\/g, '/')
ForwardSlashes(s) == [i \in 1..Len(s) |-> IF s[i] = "\\" THEN "/" ELSE s[i]]

\* s.replace(/\/$/, '')
StripTrailingSlash(s) ==
  IF s # <<>> /\ s[Len(s)] = "/" THEN SubSeq(s, 1, Len(s) - 1) ELSE s

\* path.normalize on the segments of a path that starts at the root: empty and
\* "." segments are dropped, ".." removes the segment before it, if there is one
RECURSIVE NormalizeSegments(_, _)
NormalizeSegments(segments, kept) ==
  IF segments = <<>> THEN kept
  ELSE LET segment == Head(segments)
       IN  NormalizeSegments(Tail(segments),
             IF segment = <<>> \/ segment = <<".">> THEN kept
             ELSE IF segment = <<".", ".">>
             THEN (IF kept = <<>> THEN kept ELSE SubSeq(kept, 1, Len(kept) - 1))
             ELSE Append(kept, segment))

\* path.join('/', currentDirectory, href) of the POSIX path module: the
\* non-empty arguments joined by "/" and normalized; a trailing "/" is kept
PathJoinFromRoot(currentDirectory, href) ==
  LET NonEmpty(part) == part # <<>>
      joined   == Join(SelectSeq(<< <<"/">>, currentDirectory, href >>, NonEmpty), <<"/">>)
      segments == NormalizeSegments(Split(joined, "/"), <<>>)
  IN  IF segments = <<>> THEN <<"/">>
      ELSE <<"/">> \o Join(segments, <<"/">>)
             \o (IF joined[Len(joined)] = "/" THEN <<"/">> ELSE <<>>)

\* Mutant of link: the .md extension is kept
linkKeepingExtension(currentDirectory, token) ==
  LET href == token.href
      rewritten ==
        IF StartsWith(href, <<".", "/">>) \/ StartsWith(href, <<".", ".", "/">>)
        THEN StripTrailingSlash(ForwardSlashes(PathJoinFromRoot(currentDirectory, href)))
        ELSE IF ~StartsWith(href, <<"/">>)
        THEN ForwardSlashes(PathJoinFromRoot(currentDirectory, href))
        ELSE href
  IN  [token EXCEPT !.href =
         IF href # <<>> /\ ~hasProtocol(href) /\ ~StartsWith(href, <<"#">>)
         THEN rewritten ELSE href]

\* renderer.link(token) of createLinkTransformer(currentDirectory): the
\* modifiedToken { ...token, href } handed to the original link renderer
link(currentDirectory, token) ==
  LET href     == token.href
      stripped == IF EndsWith(href, <<".", "m", "d">>) THEN SubSeq(href, 1, Len(href) - 3)
                  ELSE href
      rewritten ==
        IF StartsWith(stripped, <<".", "/">>) \/ StartsWith(stripped, <<".", ".", "/">>)
        THEN StripTrailingSlash(ForwardSlashes(PathJoinFromRoot(currentDirectory, stripped)))
        ELSE IF ~StartsWith(stripped, <<"/">>)
        THEN ForwardSlashes(PathJoinFromRoot(currentDirectory, stripped))
        ELSE stripped
  IN  [token EXCEPT !.href =
         IF href # <<>> /\ ~hasProtocol(href) /\ ~StartsWith(href, <<"#">>)
         THEN rewritten ELSE href]

(***************************************************************************)
(* The rendering steps of scanDir, each on inputs drawn from a bounded set *)
(***************************************************************************)
\* The directories of the files whose links are rendered
LinkDirectories == { <<>>, <<"b", "l", "o", "g">>, <<"d", "o", "c", "s", "/", "g", "u", "i", "d", "e">> }

HrefPrefixes ==
  { <<>>, <<".", "/">>, <<".", ".", "/">>, <<"/">>, <<"#">>, <<"h", "t", "t", "p", "s", ":", "/", "/">>, <<"m", "a", "i", "l", "t", "o", ":">>, <<".", ".", "/", ".", ".", "/">>, <<".", "/", "/">>,
    <<"a", "/", "b", ":">>, <<"\\">> }

HrefBodies ==
  { <<>>, <<"o", "t", "h", "e", "r">>, <<"o", "t", "h", "e", "r", "-", "f", "i", "l", "e">>, <<"d", "o", "c", "s", "/", "s", "e", "t", "u", "p">>, <<"a", "/", ".", ".", "/", "b">>, <<"a", "/", "/", "b">>, <<".", ".">>,
    <<"a", "l", "r", "e", "a", "d", "y", "/", "a", "b", "s", "o", "l", "u", "t", "e">>, <<"e", "x", "a", "m", "p", "l", "e", ".", "c", "o", "m">>, <<"s", "e", "c", "t", "i", "o", "n">>, <<"a", "\\", "b">> }

HrefSuffixes == { <<>>, <<".", "m", "d">>, <<"/">>, <<".", "m", "d", "/">>, <<".", "m", "d", "#", "t", "o", "p">>, <<"?", "v", "=", "1", ".", "m", "d">> }

Hrefs ==
  {prefix \o body \o suffix :
     prefix \in HrefPrefixes, body \in HrefBodies, suffix \in HrefSuffixes}

\* title is null (the empty tuple) or a string
Tokens ==
  {[href |-> href, title |-> title, text |-> <<"h", "e", "r", "e">>] :
     href \in Hrefs, title \in { <<>>, <<"T", "i", "p">> }}

\* The blocks marked.parse renders: headings written with "#" and with "===",
\* raw HTML, paragraphs
HtmlBlocks ==
  { <<"<", "h", "1", ">", "A", "<", "/", "h", "1", ">">>, <<"<", "h", "1", " ", "i", "d", "=", "x", ">", "B", "<", "/", "h", "1", ">">>, <<"<", "h", "1", ">", "<", "/", "h", "1", ">">>, <<"<", "p", ">", "C", "<", "/", "p", ">">>, <<"<", "h", "2", ">", "D", "<", "/", "h", "2", ">">>,
    <<"\n">>,
    <<"<", "h", "1", ">", "E", "\n", "F", "<", "/", "h", "1", ">">>,
    <<"<", "h", "1", "x", ">", "G", "<", "/", "h", "1", ">">> }

\* The pieces of the texts that processTemplateVariables is given
TemplatePieces ==
  { <<"{", "{", "s", "i", "t", "e", ".", "n", "a", "m", "e", "}", "}">>, <<"{", "{", " ", "s", "i", "t", "e", ".", "n", "a", "m", "e", " ", "}", "}">>, <<"{", "{", "u", "n", "k", "n", "o", "w", "n", ".", "k", "e", "y", "}", "}">>, <<"{", "{", "s", "i", "t", "e", ".", "d", "e", "s", "c", "r", "i", "p", "t", "i", "o", "n", "}", "}">>,
    <<"{", "{", "d", "a", "t", "e", ".", "y", "e", "a", "r">>, <<"{", "{", "}", "}">>, <<"{", "{", " ", "}", "}">>, <<"{">>, <<"}">>, <<"H", "i", " ">>, <<"}", "}">> }

\* Upper bound of the number of pieces of a rendered text
MaxPieces == 3

\* The concatenations of at most n of the pieces
RECURSIVE Concatenations(_, _)
Concatenations(pieces, n) ==
  IF n = 0 THEN { <<>> }
  ELSE LET shorter == Concatenations(pieces, n - 1)
       IN  shorter \cup {text \o piece : text \in shorter, piece \in pieces}

\* What a rendering step is given: a link token and the directory of its file,
\* a text with placeholders, or rendered HTML
RenderInputs ==
  {[kind |-> "link", currentDirectory |-> currentDirectory, token |-> token] :
     currentDirectory \in LinkDirectories, token \in Tokens}
  \cup {[kind |-> "template", content |-> content] :
          content \in Concatenations(TemplatePieces, MaxPieces)}
  \cup {[kind |-> "html", html |-> html] :
          html \in Concatenations(HtmlBlocks, MaxPieces)}

Rendering(input) == [op |-> "render", arg |-> input, threw |-> FALSE, value |-> NoValue]

\* The content processor with one input of a rendering step at hand
InitRender ==
  /\ disk = [exists |-> TRUE, files |-> {}]
  /\ isDev = FALSE
  /\ cachedContent = Null
  /\ scanCount = 0
  /\ result \in {Rendering(input) : input \in RenderInputs}
  /\ DevIdle

\* marked calls renderer.link for a link of the file
RenderLink ==
  /\ result.op = "render"
  /\ result.arg.kind = "link"
  /\ result' = [op |-> "link", arg |-> result.arg, threw |-> FALSE,
                value |-> link(result.arg.currentDirectory, result.arg.token)]
  /\ UNCHANGED <<disk, isDev, cachedContent, scanCount>>
  /\ UNCHANGED devVars

\* processTemplateVariables(markdownContent), processTemplateVariables(value)
ProcessTemplateVariables ==
  /\ result.op = "render"
  /\ result.arg.kind = "template"
  /\ result' = [op |-> "processTemplateVariables", arg |-> result.arg, threw |-> FALSE,
                value |-> processTemplateVariables(result.arg.content)]
  /\ UNCHANGED <<disk, isDev, cachedContent, scanCount>>
  /\ UNCHANGED devVars

(***************************************************************************)
(* removeFirstH1: html.replace(/<h1[^>]*>(.*?)<\/h1>/, '')                 *)
(***************************************************************************)
\* The characters "." does not match
LineTerminators == {"\n", "\r"}

\* The index of the last character of the match that starts at index i, or 0
\* when nothing matches there.  [^>]* runs up to the first ">" after "<h1"; the
\* lazy (.*?) stops at the first "</h1>" and crosses no line terminator.
H1MatchEnd(html, i) ==
  IF ~StartsWith(SliceFrom(html, i), <<"<", "h", "1">>) THEN 0
  ELSE LET close == IndexOf(SliceFrom(html, i + 3), <<">">>)
           inner == i + 3 + close
           ends  == {k \in inner..(Len(html) - 4) :
                       /\ SubSeq(html, k, k + 4) = <<"<", "/", "h", "1", ">">>
                       /\ \A j \in inner..(k - 1) : html[j] \notin LineTerminators}
       IN  IF close = 0 \/ ends = {} THEN 0
           ELSE 4 + CHOOSE k \in ends : \A other \in ends : k <= other

\* A regular expression without the g flag: the leftmost match is replaced
removeFirstH1(html) ==
  LET starts == {i \in 1..Len(html) : H1MatchEnd(html, i) # 0}
      first  == CHOOSE i \in starts : \A other \in starts : i <= other
  IN  IF starts = {} THEN html
      ELSE SubSeq(html, 1, first - 1) \o SliceFrom(html, H1MatchEnd(html, first) + 1)

\* removeFirstH1(marked.parse(processedMarkdownContent, { renderer }))
RemoveFirstH1 ==
  /\ result.op = "render"
  /\ result.arg.kind = "html"
  /\ result' = [op |-> "removeFirstH1", arg |-> result.arg, threw |-> FALSE,
                value |-> removeFirstH1(result.arg.html)]
  /\ UNCHANGED <<disk, isDev, cachedContent, scanCount>>
  /\ UNCHANGED devVars

NextRender ==
  \/ RenderLink
  \/ ProcessTemplateVariables
  \/ RemoveFirstH1

SpecRender == InitRender /\ [][NextRender]_vars

\* The href starts with a URI scheme: a letter, then letters, digits, "+", "."
\* or "-", then ":"
StartsWithScheme(href) ==
  LET colon == IndexOf(href, <<":">>)
  IN  /\ colon > 1
      /\ href[1] \in Letters
      /\ \A j \in 2..(colon - 1) : href[j] \in Letters \cup Digits \cup {"+", ".", "-"}

\* The segments of a path from the root with "." and ".." resolved
RECURSIVE ResolveDots(_)
ResolveDots(segments) ==
  IF segments = <<>> THEN <<>>
  ELSE LET before == ResolveDots(SubSeq(segments, 1, Len(segments) - 1))
           last   == segments[Len(segments)]
       IN  CASE last \in { <<>>, <<".">> } -> before
             [] last = <<".", ".">> -> IF before = <<>> THEN <<>>
                                ELSE SubSeq(before, 1, Len(before) - 1)
             [] OTHER -> Append(before, last)

\* path resolved against /D/ and then written with forward slashes: "/" for the
\* root, else without trailing slash
ResolvedAgainst(D, path) ==
  LET resolved == <<"/">> \o Join(ResolveDots(Split(D \o <<"/">> \o path, "/")), <<"/">>)
  IN  [i \in 1..Len(resolved) |-> IF resolved[i] = "\\" THEN "/" ELSE resolved[i]]

\* C12: the link transformer bound to D leaves title and text as they are and
\* leaves an href that is empty, starts with "#" or starts with a URI scheme as
\* it is; of any other href it drops a trailing ".md", and then resolves an href
\* that starts with "./" or "../" against /D/, with forward slashes and with a
\* trailing slash stripped, joins an href that does not start with "/" onto /D/,
\* and leaves an href that starts with "/" as it is.  With D = blog:
\* ./other.md -> /blog/other, ../docs/setup.md -> /docs/setup,
\* other-file -> /blog/other-file, and https://example.com, #section and
\* /already/absolute stay.
C12_LinkIsRewrittenByContract ==
  result.op = "link"
    => LET D     == result.arg.currentDirectory
           token == result.arg.token
           href  == token.href
           out   == result.value
           bare  == IF EndsWith(href, <<".", "m", "d">>) THEN SubSeq(href, 1, Len(href) - 3)
                    ELSE href
           resolved == ResolvedAgainst(D, bare)
       IN  /\ out.title = token.title
           /\ out.text = token.text
           /\ DOMAIN out = DOMAIN token
           /\ IF href = <<>> \/ StartsWith(href, <<"#">>) \/ StartsWithScheme(href)
              THEN out.href = href
              ELSE IF StartsWith(bare, <<".", "/">>) \/ StartsWith(bare, <<".", ".", "/">>)
              THEN /\ out.href = (IF resolved = <<"/">> THEN <<>> ELSE resolved)
                   /\ ~EndsWith(out.href, <<"/">>)
                   /\ \A i \in 1..Len(out.href) : out.href[i] # "\\"
              ELSE IF ~StartsWith(bare, <<"/">>)
              THEN out.href = (IF resolved # <<"/">> /\ EndsWith(bare, <<"/">>)
                               THEN resolved \o <<"/">> ELSE resolved)
              ELSE out.href = bare
           /\ D = <<"b", "l", "o", "g">> =>
                /\ href = <<".", "/", "o", "t", "h", "e", "r", ".", "m", "d">> => out.href = <<"/", "b", "l", "o", "g", "/", "o", "t", "h", "e", "r">>
                /\ href = <<".", ".", "/", "d", "o", "c", "s", "/", "s", "e", "t", "u", "p", ".", "m", "d">> => out.href = <<"/", "d", "o", "c", "s", "/", "s", "e", "t", "u", "p">>
                /\ href = <<"o", "t", "h", "e", "r", "-", "f", "i", "l", "e">> => out.href = <<"/", "b", "l", "o", "g", "/", "o", "t", "h", "e", "r", "-", "f", "i", "l", "e">>
                /\ href = <<"h", "t", "t", "p", "s", ":", "/", "/", "e", "x", "a", "m", "p", "l", "e", ".", "c", "o", "m">> => out.href = href
                /\ href = <<"#", "s", "e", "c", "t", "i", "o", "n">> => out.href = href
                /\ href = <<"/", "a", "l", "r", "e", "a", "d", "y", "/", "a", "b", "s", "o", "l", "u", "t", "e">> => out.href = href

\* C12 witness: a link of a file of blog to ../docs/setup.md has been rewritten
\* to /docs/setup, its title kept
C12_Witness ==
  /\ result.op = "link"
  /\ result.arg.currentDirectory = <<"b", "l", "o", "g">>
  /\ result.arg.token.href = <<".", ".", "/", "d", "o", "c", "s", "/", "s", "e", "t", "u", "p", ".", "m", "d">>
  /\ result.arg.token.title = <<"T", "i", "p">>
  /\ result.value.href = <<"/", "d", "o", "c", "s", "/", "s", "e", "t", "u", "p">>
  /\ result.value.title = <<"T", "i", "p">>

\* The file of the folder that an entry of the scan was read from
FileOf(entry) ==
  Corpus[CHOOSE id \in disk.files :
           PathJoin(Join(Corpus[id].dir, <<"/">>), Corpus[id].name) = entry.path]

\* A slug with every "-" turned into a space and every first letter of a word
\* in upper case
TitleCase(slug) ==
  [i \in 1..Len(slug) |->
     IF slug[i] = "-" THEN " "
     ELSE IF i = 1 \/ slug[i - 1] = "-" THEN ToUpperCase(slug[i])
     ELSE slug[i]]

\* C13 (as claimed): the entry of a file whose front matter has title X has
\* metadata.title equal to X, and the entry of a file without title field has
\* metadata.title equal to formatTitle(slug).
C13_TitleIsFrontMatterTitle ==
  (result.op = "getAllContent" /\ ~result.threw)
    => \A i \in 1..Len(result.value.entries) :
         LET entry == result.value.entries[i]
             data  == FileOf(entry).data
         IN  IF "title" \in DOMAIN data
             THEN entry.metadata.title = data.title
             ELSE entry.metadata.title = StrV(TitleCase(entry.slug))

\* C13 (amended): metadata.title is the front-matter title X itself when X is
\* not a string or holds no "{{", and X with its template placeholders
\* substituted otherwise ("{{site.name}} Blog" gives "Acme Blog"); without title
\* field it is the slug in title case (my-first-post gives My First Post).
C13_TitleIsSubstitutedFrontMatterTitle ==
  (result.op = "getAllContent" /\ ~result.threw)
    => \A i \in 1..Len(result.value.entries) :
         LET entry == result.value.entries[i]
             data  == FileOf(entry).data
             title == entry.metadata.title
         IN  /\ ("title" \in DOMAIN data /\ data.title.t # "string")
                  => title = data.title
             /\ ("title" \in DOMAIN data /\ data.title.t = "string")
                  => /\ title.t = "string"
                     /\ ~Includes(data.title.s, <<"{", "{">>) => title = data.title
                     /\ title.s = processTemplateVariables(data.title.s)
                     /\ data.title.s = <<"{", "{", "s", "i", "t", "e", ".", "n", "a", "m", "e", "}", "}", " ", "B", "l", "o", "g">> => title.s = <<"A", "c", "m", "e", " ", "B", "l", "o", "g">>
             /\ "title" \notin DOMAIN data
                  => /\ title = StrV(TitleCase(entry.slug))
                     /\ entry.slug = <<"m", "y", "-", "f", "i", "r", "s", "t", "-", "p", "o", "s", "t">> => title.s = <<"M", "y", " ", "F", "i", "r", "s", "t", " ", "P", "o", "s", "t">>

\* C13 witness: one scan has given the title "Acme Blog" to the file titled
\* "{{site.name}} Blog" and the title "My First Post" to my-first-post.md
C13_Witness ==
  /\ result.op = "getAllContent"
  /\ ~result.threw
  /\ \E i, j \in 1..Len(result.value.entries) :
       /\ "title" \in DOMAIN FileOf(result.value.entries[i]).data
       /\ FileOf(result.value.entries[i]).data.title = StrV(<<"{", "{", "s", "i", "t", "e", ".", "n", "a", "m", "e", "}", "}", " ", "B", "l", "o", "g">>)
       /\ result.value.entries[i].metadata.title = StrV(<<"A", "c", "m", "e", " ", "B", "l", "o", "g">>)
       /\ result.value.entries[j].slug = <<"m", "y", "-", "f", "i", "r", "s", "t", "-", "p", "o", "s", "t">>
       /\ result.value.entries[j].metadata.title = StrV(<<"M", "y", " ", "F", "i", "r", "s", "t", " ", "P", "o", "s", "t">>)

\* The index of the last character of the placeholder {{name}} that starts at
\* index i of content, name being non-empty and free of braces, or 0 when no
\* placeholder starts there
PlaceholderEnd(content, i) ==
  LET braces == {k \in (i + 2)..Len(content) : content[k] \in {"{", "}"}}
      k      == CHOOSE first \in braces : \A other \in braces : first <= other
  IN  IF /\ StartsWith(SliceFrom(content, i), <<"{", "{">>)
         /\ braces # {}
         /\ k > i + 2
         /\ StartsWith(SliceFrom(content, k), <<"}", "}">>)
      THEN k + 1
      ELSE 0

\* content with each placeholder of a known variable replaced by the value of
\* the variable, in one pass from the left
RECURSIVE Substituted(_)
Substituted(content) ==
  IF content = <<>> THEN <<>>
  ELSE LET end  == PlaceholderEnd(content, 1)
           name == Trim(SubSeq(content, 3, end - 2))
       IN  IF end = 0
           THEN <<Head(content)>> \o Substituted(Tail(content))
           ELSE (IF name \in DOMAIN variables THEN variables[name]
                 ELSE SubSeq(content, 1, end))
                  \o Substituted(SliceFrom(content, end + 1))

\* C14 (as claimed): processTemplateVariables replaces every placeholder {{name}}
\* whose trimmed name is a key of the variable map by the value of the key, leaves
\* every placeholder of an unknown name and all text outside placeholders as they
\* are, and expands nothing inside a substituted value.
C14_EveryKnownPlaceholderIsReplaced ==
  result.op = "processTemplateVariables"
    => result.value = Substituted(result.arg.content)

\* The index of the last character of the <h1> element whose opening tag starts
\* at index i of html: the tag name h1, any attributes, and everything through
\* the first following </h1>; 0 when no <h1> element starts at i
H1ElementEnd(html, i) ==
  LET closes == {k \in (i + 3)..Len(html) : html[k] = ">"}
      close  == CHOOSE k \in closes : \A other \in closes : k <= other
      ends   == {k \in (close + 1)..Len(html) : StartsWith(SliceFrom(html, k), <<"<", "/", "h", "1", ">">>)}
  IN  IF /\ StartsWith(SliceFrom(html, i), <<"<", "h", "1">>)
         /\ closes # {}
         /\ html[i + 3] \in {">", " ", "\n", "\t"}
         /\ ends # {}
      THEN 4 + CHOOSE k \in ends : \A other \in ends : k <= other
      ELSE 0

\* Where the <h1> elements of html start
H1Elements(html) == {i \in 1..Len(html) : H1ElementEnd(html, i) # 0}

\* C15 (as claimed): removeFirstH1 removes the first <h1> element of the HTML,
\* from its opening tag through the first following </h1>, and nothing else;
\* on HTML with exactly one <h1> element the result holds no <h1> element and
\* removeFirstH1 leaves the result as it is.
C15_OnlyFirstH1IsRemoved ==
  result.op = "removeFirstH1"
    => LET html     == result.arg.html
           elements == H1Elements(html)
           first    == CHOOSE i \in elements : \A other \in elements : i <= other
       IN  /\ elements = {} => result.value = html
           /\ elements # {} =>
                result.value = SubSeq(html, 1, first - 1)
                                 \o SliceFrom(html, H1ElementEnd(html, first) + 1)
           /\ Cardinality(elements) = 1 =>
                /\ H1Elements(result.value) = {}
                /\ removeFirstH1(result.value) = result.value

\* C16 (as claimed): a request queued behind the running build is not lost: the
\* step in which the process of that build closes, with whatever exit code,
\* starts a new build, with no further change event, and leaves needsRebuild
\* false.
C16_QueuedRebuildStartsAtClose ==
  [][ (needsRebuild /\ buildInProgress /\ running' # running /\ changes' = changes)
        => /\ spawned' = spawned + 1
           /\ running' = {spawned'}
           /\ buildInProgress'
           /\ ~needsRebuild' ]_vars

\* C17 (as claimed): getSidebarTree(d) places every entry under d exactly once,
\* by its location: an entry whose directory is d is a top-level leaf; an entry
\* in a subdirectory of d is a child of the one group node of the first path
\* segment beyond d and no top-level leaf, whatever the name of the subdirectory;
\* the children of group nodes are leaves.
C17_EntriesArePlacedByLocation ==
  (result.op = "getSidebarTree" /\ ~result.threw)
    => LET d       == result.arg
           tree    == result.value
           entries == cachedContent.entries
           Below(entry) == IsPrefix(Segments(d), Segments(entry.directory))
           under   == {i \in 1..Len(entries) : Below(entries[i])}
           direct  == {i \in under : entries[i].directory = d}
           Segment(i) == Segments(entries[i].directory)[Len(Segments(d)) + 1]
           segments == {Segment(i) : i \in under \ direct}
           urls    == {entries[i].url : i \in under}
           groups  == {g \in 1..Len(tree) : ~IsLeaf(tree[g])}
           GroupsOf(segment) == {g \in groups : tree[g].title = formatTitle(segment)}
       IN  /\ \A u \in urls :
                Cardinality({t \in 1..Len(tree) : IsLeaf(tree[t]) /\ tree[t].url = u})
                  = Cardinality({i \in direct : entries[i].url = u})
           /\ \A t \in 1..Len(tree) : IsLeaf(tree[t]) => tree[t].url \in urls
           /\ Cardinality(groups) = Cardinality(segments)
           /\ \A segment \in segments :
                /\ Cardinality(GroupsOf(segment)) = 1
                /\ \A g \in GroupsOf(segment), u \in urls :
                     Cardinality({c \in 1..Len(tree[g].children) : tree[g].children[c].url = u})
                       = Cardinality({i \in under \ direct :
                                        Segment(i) = segment /\ entries[i].url = u})
           /\ \A g \in groups :
                \A c \in 1..Len(tree[g].children) :
                  /\ IsLeaf(tree[g].children[c])
                  /\ tree[g].children[c].url \in urls

====
